---- MODULE Spec2Model ----
(***************************************************************************)
(* Model of the synthetic event generator and the raw-store loader of      *)
(* src/src/ingestion/event_generator.py.                                   *)
(*                                                                         *)
(* Generator side: EventGenerator instances (pools, session map), the      *)
(* process-global `random` stream they all draw from, uuid4 (operating     *)
(* system entropy, independent of the seed), generate_event and the lazy   *)
(* generate_day iterator.                                                  *)
(* Loader side: load_to_raw as the steps connect / execute_values page by  *)
(* page / commit / close against a table with primary key event_id.        *)
(***************************************************************************)
EXTENDS Integers, Sequences, FiniteSets, TLC

(***************************************************************************)
(* Bounds of the model.  The pool sizes and the page size are the          *)
(* program's values scaled down (500 users, 2000 documents, pages of 100   *)
(* rows) so that every case is reached in a finite state space.            *)
(***************************************************************************)
NumGens == 2
NUM_USERS == 2
NUM_DOCUMENTS == 2
MaxSeed == 2
MaxDay == 2
MaxEvents == 2
MaxCount == 2
MaxRng == 255
PageSize == 2
MaxEventId == 3
MaxVersion == 2
MaxBatchId == 2
MaxConns == 1

Gens == 1..NumGens
Seeds == 0..MaxSeed

(***************************************************************************)
(* Module-level configuration of the generator.                            *)
(***************************************************************************)
EVENT_TYPES ==
  << "document_edited", "document_created", "user_login", "feature_used",
     "document_shared", "user_logout", "subscription_started",
     "subscription_upgraded", "subscription_cancelled", "document_deleted" >>

EVENT_WEIGHTS == << 35, 10, 15, 20, 8, 5, 2, 3, 1, 1 >>

PLATFORMS == << "web", "mobile", "desktop", "api" >>
PLATFORM_WEIGHTS == << 60, 25, 10, 5 >>

PLANS == << "free", "pro", "enterprise" >>
PLAN_WEIGHTS == << 70, 25, 5 >>

ACTIVITY_LEVELS == << "high", "medium", "low" >>

FEATURES ==
  << [id |-> "real_time_collab", name |-> "Real-time Collaboration",
      category |-> "collaboration", premium |-> TRUE],
     [id |-> "comments", name |-> "Comments",
      category |-> "collaboration", premium |-> FALSE],
     [id |-> "version_history", name |-> "Version History",
      category |-> "editing", premium |-> TRUE],
     [id |-> "export_pdf", name |-> "Export to PDF",
      category |-> "editing", premium |-> FALSE],
     [id |-> "templates", name |-> "Templates",
      category |-> "editing", premium |-> FALSE],
     [id |-> "cloud_storage", name |-> "Cloud Storage",
      category |-> "storage", premium |-> FALSE],
     [id |-> "advanced_search", name |-> "Advanced Search",
      category |-> "analytics", premium |-> TRUE],
     [id |-> "team_analytics", name |-> "Team Analytics",
      category |-> "analytics", premium |-> TRUE] >>

HOUR_WEIGHTS ==
  << 1, 1, 1, 1, 1, 2, 3, 5, 8, 10, 10, 9,
     7, 8, 10, 10, 9, 8, 6, 5, 4, 3, 2, 1 >>

SUBSCRIPTION_PLANS == << "pro", "enterprise" >>
BILLING_CYCLES == << "monthly", "annual" >>
CANCEL_REASONS == << "too_expensive", "not_using", "competitor", "other" >>

\* variant: document_shared is missing from the list of document events
DocumentEventTypesWithoutShared ==
  { "document_edited", "document_created", "document_deleted" }

DOCUMENT_EVENT_TYPES ==
  { "document_edited", "document_created", "document_deleted",
    "document_shared" }

(***************************************************************************)
(* The process-global stream of the `random` module.  The stream is a      *)
(* deterministic function of the seed: a full-period congruential          *)
(* generator stands for the library's generator.  A draw advances the      *)
(* state once; the new state s, read as the fraction s / RngMod, is the    *)
(* value of random.random().                                               *)
(***************************************************************************)
RngMod == 65536
RngMul == 25173
RngInc == 13849

SeedState(seed) == (seed * 29573 + 42) % RngMod

Advance(s) == (s * RngMul + RngInc) % RngMod

RECURSIVE Nth(_, _)
Nth(s, k) == IF k = 0 THEN s ELSE Nth(Advance(s), k - 1)

\* floor(random() * n)
RandBelow(s, n) == (s * n) \div RngMod

\* random.randint(a, b): uniform in a..b, both ends included
Randint(s, a, b) == a + RandBelow(s, b - a + 1)

\* random.choice(seq)
Choice(s, seq) == seq[1 + RandBelow(s, Len(seq))]

RECURSIVE CumWeight(_, _)
CumWeight(w, i) == IF i = 0 THEN 0 ELSE w[i] + CumWeight(w, i - 1)

\* random.choices(population, weights)[0]: the first index whose cumulative
\* weight exceeds random() * total (bisect over the accumulated weights)
RECURSIVE Bisect(_, _, _, _)
Bisect(weights, x, i, acc) ==
  IF i >= Len(weights) \/ (acc + weights[i]) * RngMod > x
    THEN i
    ELSE Bisect(weights, x, i + 1, acc + weights[i])

Choices(s, population, weights) ==
  population[Bisect(weights, s * CumWeight(weights, Len(weights)), 1, 0)]

(***************************************************************************)
(* uuid.uuid4(): drawn from operating-system entropy, not from the seeded  *)
(* stream.  The entropy source is the counter uuidCtr: every call returns  *)
(* a value no earlier call returned, whatever the seed.                    *)
(***************************************************************************)
Uuid4(u) == u + 1

(***************************************************************************)
(* datetime values: a calendar day and a time of day.                      *)
(***************************************************************************)
DateTime(d, h, m, sec) == [day |-> d, hour |-> h, minute |-> m, second |-> sec]

\* datetime.replace(hour=, minute=, second=): the calendar day is kept
Replace(dt, h, m, sec) == [dt EXCEPT !.hour = h, !.minute = m, !.second = sec]

\* datetime.isoformat(): the fields in the order of "YYYY-MM-DDTHH:MM:SS"
IsoFormat(dt) == << dt.day, dt.hour, dt.minute, dt.second >>

\* the calendar date an ISO timestamp string denotes
TimestampDate(ts) == ts[1]

HOURS == [i \in 1..24 |-> i - 1]

(***************************************************************************)
(* Entity pool.  s is the state of the random stream and u the state of    *)
(* the entropy source before the entity is drawn.                          *)
(***************************************************************************)
\* one iteration of the loop of _generate_users: three draws, one uuid
NewUser(i, s, u) ==
  LET s1 == Advance(s)
      s2 == Advance(s1)
      s3 == Advance(s2)
  IN [ user_id |-> << "usr", Uuid4(u) >>,
       email |-> << "user", i >>,
       signup_date |-> Randint(s1, 0, 365),
       plan |-> Choices(s2, PLANS, PLAN_WEIGHTS),
       activity_level |-> Choice(s3, ACTIVITY_LEVELS) ]

_generate_users(s, u) ==
  [i \in 1..NUM_USERS |-> NewUser(i - 1, Nth(s, 3 * (i - 1)), u + (i - 1))]

\* variant: the document is given an owner identifier of its own
NewDocumentOrphan(i, users, s, u) ==
  LET s1 == Advance(s)
      s2 == Advance(s1)
      owner == Choice(s1, users)
  IN [ document_id |-> << "doc", Uuid4(u) >>,
       owner_user_id |-> << "usr", Uuid4(u) >>,
       title |-> << "Document", i >>,
       created_at |-> owner.signup_date + Randint(s2, 0, 30) ]

\* one iteration of the loop of _generate_documents: two draws, one uuid
NewDocument(i, users, s, u) ==
  LET s1 == Advance(s)
      s2 == Advance(s1)
      owner == Choice(s1, users)
  IN [ document_id |-> << "doc", Uuid4(u) >>,
       owner_user_id |-> owner.user_id,
       title |-> << "Document", i >>,
       created_at |-> owner.signup_date + Randint(s2, 0, 30) ]

_generate_documents(users, s, u) ==
  [i \in 1..NUM_DOCUMENTS |->
     NewDocument(i - 1, users, Nth(s, 2 * (i - 1)), u + (i - 1))]

\* the draws and uuids consumed by the constructor
InitDraws == 3 * NUM_USERS + 2 * NUM_DOCUMENTS
InitUuids == NUM_USERS + NUM_DOCUMENTS

(***************************************************************************)
(* Session tracker.                                                        *)
(***************************************************************************)
\* variant: the comparison of the renewal draw is inverted
RenewalDrawInverted(s) == s * 10 >= RngMod

\* random.random() < 0.1
RenewalDraw(s) == s * 10 < RngMod

\* variant: the assignment replaces the map by one with this entry alone
PutAlone(f, k, v) == [x \in {k} |-> v]

Put(f, k, v) == [x \in DOMAIN f \cup {k} |-> IF x = k THEN v ELSE f[x]]

\* _get_session_id: the draw is made only when the user has a session
\* (short-circuit `or`).  Returns the new session map, stream and entropy
\* states, the returned identifier, and a record of the evaluation.
_get_session_id(sessions, user_id, s, u) ==
  LET known == user_id \in DOMAIN sessions
      s1 == IF known THEN Advance(s) ELSE s
      renew == (~known) \/ RenewalDraw(s1)
      u1 == IF renew THEN Uuid4(u) ELSE u
      sessions1 == IF renew THEN Put(sessions, user_id, << "ses", u1 >>)
                            ELSE sessions
  IN [ sessions |-> sessions1,
       rng |-> s1,
       uuid |-> u1,
       ret |-> sessions1[user_id],
       eval |-> [ user_id |-> user_id,
                  known |-> known,
                  below |-> known /\ (s1 * 10 < RngMod),
                  prev |-> IF known THEN sessions[user_id] ELSE << >>,
                  ret |-> sessions1[user_id] ] ]

(***************************************************************************)
(* Event synthesizer.                                                      *)
(***************************************************************************)
NoProperties == [k \in {} |-> 0]

\* the type-specific properties (the if / elif chain of generate_event);
\* s is the stream state before the first property draw
EventProperties(event_type, documents, s) ==
  LET s1 == Advance(s)
      s2 == Advance(s1)
      s3 == Advance(s2)
  IN IF event_type \in DOCUMENT_EVENT_TYPES
       THEN IF event_type = "document_edited"
              THEN [ props |-> [ document_id |-> Choice(s1, documents).document_id,
                                 edit_duration_sec |-> Randint(s2, 10, 3600),
                                 characters_added |-> Randint(s3, 0, 5000) ],
                     rng |-> s3 ]
              ELSE [ props |-> [ document_id |-> Choice(s1, documents).document_id ],
                     rng |-> s1 ]
     ELSE IF event_type = "feature_used"
       THEN [ props |-> [ feature_id |-> Choice(s1, FEATURES).id,
                          feature_name |-> Choice(s1, FEATURES).name,
                          duration_sec |-> Randint(s2, 5, 300) ],
              rng |-> s2 ]
     ELSE IF event_type \in {"subscription_started", "subscription_upgraded"}
       THEN [ props |-> [ plan |-> Choice(s1, SUBSCRIPTION_PLANS),
                          billing_cycle |-> Choice(s2, BILLING_CYCLES) ],
              rng |-> s2 ]
     ELSE IF event_type = "subscription_cancelled"
       THEN [ props |-> [ reason |-> Choice(s1, CANCEL_REASONS) ],
              rng |-> s1 ]
     ELSE [ props |-> NoProperties, rng |-> s ]

\* variant: the drawn time is added to event_date (a timedelta) instead of
\* replacing its time of day
EventTimeAdded(event_date, hour, minute, second) ==
  LET total == (event_date.hour + hour) * 3600
               + (event_date.minute + minute) * 60
               + event_date.second + second
  IN DateTime(event_date.day + (total \div 86400),
              (total % 86400) \div 3600,
              (total % 3600) \div 60,
              total % 60)

\* the timestamp of an event for event_date
EventTime(event_date, hour, minute, second) ==
  Replace(event_date, hour, minute, second)

\* generate_event: returns the event, the new session map, stream and
\* entropy states, and the record of its session evaluation
generate_event(users, documents, sessions, s, u, event_date) ==
  LET s1 == Advance(s)
      s2 == Advance(s1)
      s3 == Advance(s2)
      s4 == Advance(s3)
      s5 == Advance(s4)
      s6 == Advance(s5)
      event_type == Choices(s1, EVENT_TYPES, EVENT_WEIGHTS)
      user == Choice(s2, users)
      platform == Choices(s3, PLATFORMS, PLATFORM_WEIGHTS)
      hour == Choices(s4, HOURS, HOUR_WEIGHTS)
      minute == Randint(s5, 0, 59)
      second == Randint(s6, 0, 59)
      event_time == EventTime(event_date, hour, minute, second)
      u1 == Uuid4(u)
      ses == _get_session_id(sessions, user.user_id, s6, u1)
      s7 == Advance(ses.rng)
      s8 == Advance(s7)
      pr == EventProperties(event_type, documents, s8)
  IN [ event |-> [ event_id |-> << "evt", u1 >>,
                   event_type |-> event_type,
                   event_timestamp |-> IsoFormat(event_time) \o << "Z" >>,
                   user_id |-> user.user_id,
                   session_id |-> ses.ret,
                   properties |-> pr.props,
                   context |-> [ platform |-> platform,
                                 ip_address |-> << 192, 168,
                                                   Randint(s7, 1, 255),
                                                   Randint(s8, 1, 255) >>,
                                 user_agent |-> << "Mozilla/5.0", platform >> ] ],
       sessions |-> ses.sessions,
       rng |-> pr.rng,
       uuid |-> ses.uuid,
       eval |-> ses.eval ]

(***************************************************************************)
(* State.                                                                  *)
(***************************************************************************)
VARIABLES
  rng,        \* state of the process-global random stream
  uuidCtr,    \* state of the entropy source behind uuid4
  built,      \* built[g]: __init__ of instance g has run
  seedOf,     \* seedOf[g]: the seed instance g was constructed with
  users,      \* users[g]: self.users
  documents,  \* documents[g]: self.documents
  sessions,   \* sessions[g]: self.sessions
  log,        \* log[g]: history of the generate_event calls on g
  iter,       \* iter[g]: the generator object of generate_day on g
  table,      \* committed rows of raw.events
  pc,         \* position of the load_to_raw call
  args,       \* its arguments: events and batch_id
  sent,       \* number of rows of `values` already sent by execute_values
  view,       \* raw.events as the open transaction sees it
  rowcount,   \* cur.rowcount
  conns,      \* number of open connections to the store
  result,     \* the value returned by the call (-1 until it returns)
  before,     \* history: the table when the call started
  fault,      \* history: a storage failure hit the call
  tries,      \* history: connects and statements attempted by the call
  retry,      \* history: the call repeats the arguments of a failed call
  mpc,        \* position of main()
  margs,      \* main: the parsed command line
  current,    \* main: the day being processed
  batch,      \* main: batch_id of the day
  total_loaded, \* main: running total of the values load_to_raw returned
  printed     \* main: the lines written to the output, one record each

genVars == << rng, uuidCtr, built, seedOf, users, documents, sessions, log, iter >>

loadVars == << table, pc, args, sent, view, rowcount, conns, result, before,
              fault, tries, retry >>

mainVars == << mpc, margs, current, batch, total_loaded, printed >>

vars == << rng, uuidCtr, built, seedOf, users, documents, sessions, log, iter,
           table, pc, args, sent, view, rowcount, conns, result, before,
           fault, tries, retry,
           mpc, margs, current, batch, total_loaded, printed >>

EventDates ==
  { DateTime(d, 0, 0, 0) : d \in 1..MaxDay } \cup { DateTime(MaxDay, 23, 59, 59) }

\* the generator object: its arguments, how many events it has yielded, and
\* (history) how many generate_event calls its instance had seen when it was
\* created
NoIter == [ state |-> "none", event_date |-> DateTime(0, 0, 0, 0),
            num_events |-> 0, yielded |-> 0, base |-> 0 ]

\* total number of generate_event calls made so far
RECURSIVE SumLen(_, _)
SumLen(f, S) ==
  IF S = {} THEN 0
  ELSE LET g == CHOOSE x \in S : TRUE IN Len(f[g]) + SumLen(f, S \ {g})

TotalCalls == SumLen(log, Gens)

(***************************************************************************)
(* Loader.  The raw store is the table raw.events with primary key         *)
(* event_id.  The events handed to load_to_raw are dictionaries with an    *)
(* event_id and a body (the other fields).                                 *)
(***************************************************************************)
EventIds == 1..MaxEventId
Versions == 1..MaxVersion
BatchIds == 1..MaxBatchId

\* the batches of the model: the events with the identifiers lo..hi in
\* order (none when hi < lo), all with the same body
Batch(lo, hi, v) ==
  [k \in 1..(hi - lo + 1) |-> [event_id |-> lo + k - 1, body |-> v]]

\* json.dumps(e): the serialized document, the fields in order
JsonDumps(e) == << e.event_id, e.body >>

\* values = [(e["event_id"], json.dumps(e), batch_id) for e in events]
Values(events, batch_id) ==
  [k \in 1..Len(events) |->
     [event_id |-> events[k].event_id,
      raw_payload |-> JsonDumps(events[k]),
      batch_id |-> batch_id]]

Keys(rows) == { r.event_id : r \in rows }

\* variant: ON CONFLICT (event_id) DO UPDATE, the new row replaces the old
InsertRowUpdate(rows, row) ==
  [rows |-> { r \in rows : r.event_id # row.event_id } \cup {row},
   count |-> 1, error |-> FALSE]

\* INSERT ... ON CONFLICT (event_id) DO NOTHING of one row into the rows
\* the transaction sees: a row whose key exists is skipped
InsertRow(rows, row) ==
  IF row.event_id \in Keys(rows)
    THEN [rows |-> rows, count |-> 0, error |-> FALSE]
    ELSE [rows |-> rows \cup {row}, count |-> 1, error |-> FALSE]

\* one statement of execute_values: the rows values[from..to] in order
RECURSIVE InsertPage(_, _, _, _)
InsertPage(rows, values, from, to) ==
  IF from > to THEN [rows |-> rows, count |-> 0, error |-> FALSE]
  ELSE LET one == InsertRow(rows, values[from])
           rest == InsertPage(one.rows, values, from + 1, to)
       IN [rows |-> rest.rows, count |-> one.count + rest.count,
           error |-> one.error \/ rest.error]

Min(a, b) == IF a < b THEN a ELSE b

\* variant: what the transaction wrote is committed on the way out
StoreAfterRaiseCommitted(committed, seen) == committed \cup seen

\* the raw store after a call that raised: conn.commit() was not reached,
\* the transaction is rolled back when the connection goes away
StoreAfterRaise(committed, seen) == committed

NoArgs == [events |-> << >>, batch_id |-> 0]

InitLoad ==
  /\ table = {}
  /\ pc = "idle"
  /\ args = NoArgs
  /\ sent = 0
  /\ view = {}
  /\ rowcount = -1
  /\ conns = 0
  /\ result = -1
  /\ before = {}
  /\ fault = FALSE
  /\ tries = 0
  /\ retry = FALSE

\* a caller calls load_to_raw(events, batch_id, db_config)
StartLoad(events, batch_id) ==
  /\ pc \in {"idle", "returned", "raised"}
  /\ conns < MaxConns
  /\ pc' = "connect"
  /\ args' = [events |-> events, batch_id |-> batch_id]
  /\ retry' = (pc = "raised" /\ args = [events |-> events, batch_id |-> batch_id])
  /\ before' = table
  /\ fault' = FALSE
  /\ tries' = 0
  /\ sent' = 0
  /\ rowcount' = -1
  /\ view' = {}
  /\ result' = -1
  /\ UNCHANGED << table, conns >>

\* psycopg2.connect and conn.cursor(): a fresh cursor has rowcount -1
Connect ==
  /\ pc = "connect"
  /\ pc' = "execute"
  /\ conns' = conns + 1
  /\ tries' = tries + 1
  /\ view' = table
  /\ UNCHANGED << table, args, sent, rowcount, result, before, fault, retry >>

\* psycopg2.connect raises
ConnectFails ==
  /\ pc = "connect"
  /\ pc' = "raised"
  /\ fault' = TRUE
  /\ tries' = tries + 1
  /\ UNCHANGED << table, args, sent, view, rowcount, conns, result, before, retry >>

\* execute_values sends the next page of at most PageSize rows as one
\* statement; cur.rowcount becomes the count of that statement
ExecutePage ==
  /\ pc = "execute"
  /\ sent < Len(args.events)
  /\ LET values == Values(args.events, args.batch_id)
         to == Min(sent + PageSize, Len(values))
         r == InsertPage(view, values, sent + 1, to)
     IN IF r.error
          THEN /\ pc' = "raised"
               /\ table' = StoreAfterRaise(table, view)
               /\ sent' = 0 /\ view' = {} /\ rowcount' = -1
          ELSE /\ view' = r.rows
               /\ rowcount' = r.count
               /\ sent' = to
               /\ UNCHANGED << pc, table >>
  /\ tries' = tries + 1
  /\ UNCHANGED << args, conns, result, before, fault, retry >>

\* the statement of a page fails in the store; the exception leaves
\* load_to_raw and its locals
ExecuteFails ==
  /\ pc = "execute"
  /\ sent < Len(args.events)
  /\ pc' = "raised"
  /\ fault' = TRUE
  /\ tries' = tries + 1
  /\ table' = StoreAfterRaise(table, view)
  /\ sent' = 0 /\ view' = {} /\ rowcount' = -1
  /\ UNCHANGED << args, conns, result, before, retry >>

\* inserted = cur.rowcount; conn.commit()
Commit ==
  /\ pc = "execute"
  /\ sent = Len(args.events)
  /\ pc' = "close"
  /\ table' = view
  /\ result' = rowcount
  /\ tries' = tries + 1
  /\ UNCHANGED << args, sent, view, rowcount, conns, before, fault, retry >>

\* conn.commit() raises: nothing is committed
CommitFails ==
  /\ pc = "execute"
  /\ sent = Len(args.events)
  /\ pc' = "raised"
  /\ fault' = TRUE
  /\ tries' = tries + 1
  /\ table' = StoreAfterRaise(table, view)
  /\ sent' = 0 /\ view' = {} /\ rowcount' = -1
  /\ UNCHANGED << args, conns, result, before, retry >>

\* cur.close(); conn.close(); return inserted
Close ==
  /\ pc = "close"
  /\ pc' = "returned"
  /\ conns' = conns - 1
  /\ sent' = 0 /\ view' = {} /\ rowcount' = -1
  /\ UNCHANGED << table, args, result, before, fault, tries, retry >>

\* the connection object of a call that raised is finalized by the
\* interpreter: the connection goes away
Finalize ==
  /\ pc \in {"raised", "idle", "returned"}
  /\ conns > 0
  /\ conns' = 0
  /\ UNCHANGED << table, pc, args, sent, view, rowcount, result, before, fault,
                  tries, retry >>

NextLoad ==
  \/ \E lo \in EventIds, hi \in 0..MaxEventId, v \in Versions, b \in BatchIds :
       /\ lo <= hi + 1
       /\ StartLoad(Batch(lo, hi, v), b)
  \/ Connect
  \/ ConnectFails
  \/ ExecutePage
  \/ ExecuteFails
  \/ Commit
  \/ CommitFails
  \/ Close
  \/ Finalize


NoMainArgs == [ start_date |-> 0, end_date |-> 0, events_per_day |-> 0,
                dry_run |-> FALSE ]

\* main() has not been entered
InitMain ==
  /\ mpc = "init"
  /\ margs = NoMainArgs
  /\ current = 0
  /\ batch = << >>
  /\ total_loaded = 0
  /\ printed = << >>

Init ==
  /\ rng = 0
  /\ uuidCtr = 0
  /\ built = [g \in Gens |-> FALSE]
  /\ seedOf = [g \in Gens |-> 0]
  /\ users = [g \in Gens |-> << >>]
  /\ documents = [g \in Gens |-> << >>]
  /\ sessions = [g \in Gens |-> NoProperties]
  /\ log = [g \in Gens |-> << >>]
  /\ iter = [g \in Gens |-> NoIter]
  /\ InitLoad
  /\ InitMain

(***************************************************************************)
(* EventGenerator(seed): seeds the global stream, then builds the pools    *)
(* from it.                                                                *)
(***************************************************************************)
Construct(g, seed) ==
  /\ ~built[g]
  /\ LET s0 == SeedState(seed)
         us == _generate_users(s0, uuidCtr)
         ds == _generate_documents(us, Nth(s0, 3 * NUM_USERS),
                                   uuidCtr + NUM_USERS)
     IN /\ users' = [users EXCEPT ![g] = us]
        /\ documents' = [documents EXCEPT ![g] = ds]
        /\ rng' = Nth(s0, InitDraws)
  /\ uuidCtr' = uuidCtr + InitUuids
  /\ built' = [built EXCEPT ![g] = TRUE]
  /\ seedOf' = [seedOf EXCEPT ![g] = seed]
  /\ sessions' = [sessions EXCEPT ![g] = NoProperties]
  /\ UNCHANGED << log, iter >>
  /\ UNCHANGED loadVars

\* the effect of one call g.generate_event(event_date) on the state
CallGenerateEvent(g, event_date) ==
  LET r == generate_event(users[g], documents[g], sessions[g], rng, uuidCtr,
                          event_date)
  IN /\ sessions' = [sessions EXCEPT ![g] = r.sessions]
     /\ rng' = r.rng
     /\ uuidCtr' = r.uuid
     /\ log' = [log EXCEPT ![g] = Append(@, [ event_date |-> event_date,
                                              event |-> r.event,
                                              eval |-> r.eval ])]
     /\ UNCHANGED << built, seedOf, users, documents >>

\* a caller calls generate_event directly
GenerateEvent(g, event_date) ==
  /\ built[g]
  /\ TotalCalls < MaxEvents
  /\ CallGenerateEvent(g, event_date)
  /\ UNCHANGED iter
  /\ UNCHANGED loadVars

\* variant: calling generate_day already generates the first event
GenerateDayPrimed(g, event_date, num_events) ==
  /\ built[g]
  /\ iter[g].state \in {"none", "exhausted", "closed"}
  /\ TotalCalls < MaxEvents
  /\ num_events > 0
  /\ CallGenerateEvent(g, event_date)
  /\ iter' = [iter EXCEPT ![g] = [ state |-> "suspended",
                                   event_date |-> event_date,
                                   num_events |-> num_events,
                                   yielded |-> 0, base |-> Len(log[g]) ]]
  /\ UNCHANGED loadVars

(***************************************************************************)
(* generate_day: calling it creates the generator object and runs none of  *)
(* its body; each next() runs the loop up to the next yield.               *)
(***************************************************************************)
GenerateDay(g, event_date, num_events) ==
  /\ built[g]
  /\ iter[g].state \in {"none", "exhausted", "closed"}
  /\ iter' = [iter EXCEPT ![g] = [ state |-> "suspended",
                                   event_date |-> event_date,
                                   num_events |-> num_events,
                                   yielded |-> 0, base |-> Len(log[g]) ]]
  /\ UNCHANGED << rng, uuidCtr, built, seedOf, users, documents, sessions, log >>
  /\ UNCHANGED loadVars

\* next(): the loop has an iteration left, one event is generated and yielded
NextEvent(g) ==
  /\ iter[g].state = "suspended"
  /\ iter[g].yielded < iter[g].num_events
  /\ TotalCalls < MaxEvents
  /\ CallGenerateEvent(g, iter[g].event_date)
  /\ iter' = [iter EXCEPT ![g].yielded = @ + 1]
  /\ UNCHANGED loadVars

\* next(): range(num_events) is used up, the generator returns
StopIteration(g) ==
  /\ iter[g].state = "suspended"
  /\ iter[g].yielded >= iter[g].num_events
  /\ iter' = [iter EXCEPT ![g].state = "exhausted"]
  /\ UNCHANGED << rng, uuidCtr, built, seedOf, users, documents, sessions, log >>
  /\ UNCHANGED loadVars

\* the caller stops pulling and drops the generator object
CloseIter(g) ==
  /\ iter[g].state = "suspended"
  /\ iter' = [iter EXCEPT ![g].state = "closed"]
  /\ UNCHANGED << rng, uuidCtr, built, seedOf, users, documents, sessions, log >>
  /\ UNCHANGED loadVars

Next ==
  \/ \E g \in Gens, seed \in Seeds :
       Construct(g, seed) /\ UNCHANGED mainVars
  \/ \E g \in Gens, d \in EventDates :
       GenerateEvent(g, d) /\ UNCHANGED mainVars

\* instances driven by direct generate_event calls
Spec == Init /\ [][Next]_vars

\* the instance that DaySpec and EventSpec drive
Driven == CHOOSE g \in Gens : \A h \in Gens : g <= h

NextDay ==
  \/ \E seed \in Seeds : Construct(Driven, seed) /\ UNCHANGED mainVars
  \/ \E d \in EventDates, n \in 0..MaxCount :
       GenerateDay(Driven, d, n) /\ UNCHANGED mainVars
  \/ NextEvent(Driven) /\ UNCHANGED mainVars
  \/ StopIteration(Driven) /\ UNCHANGED mainVars
  \/ CloseIter(Driven) /\ UNCHANGED mainVars

\* one instance driven through generate_day
DaySpec == Init /\ [][NextDay]_vars

(***************************************************************************)
(* generate_event over the states of the stream.  The scripts that drive   *)
(* the generator draw from the same global stream between their calls      *)
(* (random.uniform in generate_realistic_events.py and                     *)
(* generate_current_events.py), so an instance finds the stream in any     *)
(* state: InitEvent is the state after the constructor of one instance     *)
(* with the stream in any of the states RngStates.                         *)
(***************************************************************************)
RngStates == 0..MaxRng

InitEvent ==
  /\ \E seed \in Seeds :
       LET s0 == SeedState(seed)
           us == _generate_users(s0, 0)
           ds == _generate_documents(us, Nth(s0, 3 * NUM_USERS), NUM_USERS)
       IN /\ users = [g \in Gens |-> IF g = Driven THEN us ELSE << >>]
          /\ documents = [g \in Gens |-> IF g = Driven THEN ds ELSE << >>]
          /\ seedOf = [g \in Gens |-> IF g = Driven THEN seed ELSE 0]
  /\ rng \in RngStates
  /\ uuidCtr = InitUuids
  /\ built = [g \in Gens |-> g = Driven]
  /\ sessions = [g \in Gens |-> NoProperties]
  /\ log = [g \in Gens |-> << >>]
  /\ iter = [g \in Gens |-> NoIter]
  /\ InitLoad
  /\ InitMain

NextEvents ==
  \E d \in EventDates : GenerateEvent(Driven, d) /\ UNCHANGED mainVars

EventSpec == InitEvent /\ [][NextEvents]_vars

Load == NextLoad /\ UNCHANGED << genVars, mainVars >>

\* load_to_raw called repeatedly against the raw store
LoadSpec == Init /\ [][Load]_vars

(***************************************************************************)
(* main(): the command-line entry point.  It constructs the generator,     *)
(* parses the date range, and for every day of the range draws a batch     *)
(* identifier, materializes generate_day into a list and either prints a   *)
(* sample (dry run) or calls load_to_raw.  An exception of a callee is not *)
(* caught: it ends the run.                                                *)
(***************************************************************************)
MAIN_SEED == 42

\* variant: the dry-run flag is not consulted
LoadsAlways(dry_run) == TRUE

\* the branch `if args.dry_run: ... else: load_to_raw(...)`
Loads(dry_run) == ~dry_run

\* events = list(generator.generate_day(current, args.events_per_day))
DayEvents ==
  [k \in 1..(Len(log[Driven]) - iter[Driven].base) |->
     log[Driven][iter[Driven].base + k].event]

\* an event as load_to_raw reads it: its event_id and the whole dictionary
AsDocument(e) == [event_id |-> e.event_id, body |-> e]

\* number of days of the range (the loop `while current <= end`)
RangeDays(start, end) == IF end >= start THEN end - start + 1 ELSE 0

\* parse_args, EventGenerator(seed=42), then the two strptime calls
MainStart(start, end, events_per_day, dry_run) ==
  /\ mpc = "init"
  /\ RangeDays(start, end) * events_per_day <= MaxEvents
  /\ Construct(Driven, MAIN_SEED)
  /\ margs' = [ start_date |-> start, end_date |-> end,
                events_per_day |-> events_per_day, dry_run |-> dry_run ]
  /\ current' = start
  /\ total_loaded' = 0
  /\ mpc' = "loop"
  /\ UNCHANGED << batch, printed >>

\* the loop test holds: batch_id is drawn
MainBatchId ==
  /\ mpc = "loop"
  /\ current <= margs.end_date
  /\ batch' = << "batch", current, Uuid4(uuidCtr) >>
  /\ uuidCtr' = Uuid4(uuidCtr)
  /\ mpc' = "list"
  /\ UNCHANGED << rng, built, seedOf, users, documents, sessions, log, iter >>
  /\ UNCHANGED loadVars
  /\ UNCHANGED << margs, current, total_loaded, printed >>

\* generator.generate_day(current, args.events_per_day)
MainGenerateDay ==
  /\ mpc = "list"
  /\ GenerateDay(Driven, DateTime(current, 0, 0, 0), margs.events_per_day)
  /\ mpc' = "pull"
  /\ UNCHANGED << margs, current, batch, total_loaded, printed >>

\* list() pulls the next element
MainPull ==
  /\ mpc = "pull"
  /\ NextEvent(Driven)
  /\ UNCHANGED mainVars

\* list() is complete; the branch on the dry-run flag
MainListed ==
  /\ mpc = "pull"
  /\ StopIteration(Driven)
  /\ mpc' = IF Loads(margs.dry_run) THEN "load" ELSE "print"
  /\ UNCHANGED << margs, current, batch, total_loaded, printed >>

\* dry run: the count and events[0] are printed; events[0] of an empty list
\* raises IndexError
MainPrintSample ==
  /\ mpc = "print"
  /\ IF Len(DayEvents) = 0
       THEN /\ mpc' = "crashed"
            /\ UNCHANGED << current, printed >>
       ELSE /\ printed' = Append(printed, [ kind |-> "sample", day |-> current,
                                            count |-> Len(DayEvents),
                                            event |-> DayEvents[1] ])
            /\ current' = current + 1
            /\ mpc' = "loop"
  /\ UNCHANGED << margs, batch, total_loaded >>
  /\ UNCHANGED genVars
  /\ UNCHANGED loadVars

\* load_to_raw(events, batch_id, db_config) is called
MainLoad ==
  /\ mpc = "load"
  /\ StartLoad([k \in 1..Len(DayEvents) |-> AsDocument(DayEvents[k])], batch)
  /\ mpc' = "loading"
  /\ UNCHANGED << margs, current, batch, total_loaded, printed >>
  /\ UNCHANGED genVars

\* a step of the call of load_to_raw that main waits for
MainLoading(step) ==
  /\ mpc = "loading"
  /\ step
  /\ UNCHANGED << genVars, mainVars >>

\* load_to_raw returned: the total and the line of the day
MainLoaded ==
  /\ mpc = "loading"
  /\ pc = "returned"
  /\ total_loaded' = total_loaded + result
  /\ printed' = Append(printed, [ kind |-> "loaded", day |-> current,
                                  count |-> result, batch |-> batch ])
  /\ current' = current + 1
  /\ mpc' = "loop"
  /\ UNCHANGED << margs, batch >>
  /\ UNCHANGED genVars
  /\ UNCHANGED loadVars

\* load_to_raw raised: the exception leaves main
MainLoadRaised ==
  /\ mpc = "loading"
  /\ pc = "raised"
  /\ mpc' = "crashed"
  /\ UNCHANGED << margs, current, batch, total_loaded, printed >>
  /\ UNCHANGED genVars
  /\ UNCHANGED loadVars

\* the loop test fails: the summary (not in a dry run) and the normal exit
MainSummary ==
  /\ mpc = "loop"
  /\ current > margs.end_date
  /\ printed' = IF margs.dry_run THEN printed
                ELSE Append(printed, [ kind |-> "summary",
                                       count |-> total_loaded ])
  /\ mpc' = "done"
  /\ UNCHANGED << margs, current, batch, total_loaded >>
  /\ UNCHANGED genVars
  /\ UNCHANGED loadVars

NextMain ==
  \/ \E start \in 1..MaxDay, end \in 1..MaxDay, n \in 0..MaxCount,
        dry \in BOOLEAN : MainStart(start, end, n, dry)
  \/ MainBatchId
  \/ MainGenerateDay
  \/ MainPull
  \/ MainListed
  \/ MainPrintSample
  \/ MainLoad
  \/ MainLoading(Connect)
  \/ MainLoading(ConnectFails)
  \/ MainLoading(ExecutePage)
  \/ MainLoading(ExecuteFails)
  \/ MainLoading(Commit)
  \/ MainLoading(CommitFails)
  \/ MainLoading(Close)
  \/ MainLoaded
  \/ MainLoadRaised
  \/ MainSummary

\* one run of the command-line entry point
MainSpec == Init /\ [][NextMain]_vars

(***************************************************************************)
(* Properties.                                                             *)
(***************************************************************************)
Range(f) == { f[x] : x \in DOMAIN f }

UserIds(g) == { users[g][i].user_id : i \in 1..Len(users[g]) }
DocumentIds(g) == { documents[g][i].document_id : i \in 1..Len(documents[g]) }
FeatureIds == { FEATURES[i].id : i \in 1..Len(FEATURES) }

UniqueIds(events) ==
  \A j, k \in 1..Len(events) :
    events[j].event_id = events[k].event_id => j = k

\* C1: a load of a batch with unique identifiers returns the number of its
\* events whose identifier was not in the store when the call started,
\* whatever the size of the batch.
LoadReturnsInsertedCount ==
  (pc = "returned" /\ UniqueIds(args.events)) =>
    result = Cardinality({ k \in 1..Len(args.events) :
                             args.events[k].event_id \notin Keys(before) })

\* C2: the store holds at most one row per event identifier, a row once
\* in the store is kept as it is by every later step, and a call raises
\* only when a storage failure hit it, never for a duplicate.
RowsInsertedOnceAndKept ==
  /\ [](\A r1, r2 \in table : r1.event_id = r2.event_id => r1 = r2)
  /\ [][\A r \in table : r \in table']_vars
  /\ [](pc = "raised" => fault)

\* a completed load met a row of an earlier load that had another payload
\* and another batch identifier
DuplicateSkipped ==
  /\ pc = "returned"
  /\ \E r \in before : \E k \in 1..Len(args.events) :
       /\ args.events[k].event_id = r.event_id
       /\ JsonDumps(args.events[k]) # r.raw_payload
       /\ args.batch_id # r.batch_id
       /\ r \in table

\* C3: two instances constructed with the same seed and driven through the
\* same sequence of days produce equal events at every position.
SameSeedSameEvents ==
  \A g1, g2 \in Gens :
    (built[g1] /\ built[g2] /\ seedOf[g1] = seedOf[g2]) =>
      \A k \in 1..Min(Len(log[g1]), Len(log[g2])) :
        (\A j \in 1..k : log[g1][j].event_date = log[g2][j].event_date) =>
          log[g1][k].event = log[g2][k].event

\* C4: every document is owned by a user of its instance's pool, and every
\* event refers to a user and (when present) a document of the pools of the
\* instance that produced it and a feature of the catalog.
ReferentialIntegrity ==
  \A g \in Gens :
    /\ \A i \in 1..Len(documents[g]) :
         documents[g][i].owner_user_id \in UserIds(g)
    /\ \A k \in 1..Len(log[g]) :
         LET e == log[g][k].event
         IN /\ e.user_id \in UserIds(g)
            /\ "document_id" \in DOMAIN e.properties
                 => e.properties.document_id \in DocumentIds(g)
            /\ "feature_id" \in DOMAIN e.properties
                 => e.properties.feature_id \in FeatureIds

\* both instances are built and an instance has produced an event that
\* refers to a document
DocumentEventProduced ==
  /\ \A g \in Gens : built[g]
  /\ \E g \in Gens : \E k \in 1..Len(log[g]) :
       "document_id" \in DOMAIN log[g][k].event.properties

\* C5: the generator object of generate_day has caused exactly as many
\* generate_event calls as elements were pulled from it (none when it is
\* created), all for its day, never more than num_events, and it ends
\* exactly when num_events elements were pulled.
GenerateDayLazyAndExact ==
  \A g \in Gens :
    iter[g].state # "none" =>
      /\ Len(log[g]) - iter[g].base = iter[g].yielded
      /\ iter[g].yielded <= iter[g].num_events
      /\ iter[g].state = "exhausted" => iter[g].yielded = iter[g].num_events
      /\ \A k \in (iter[g].base + 1)..Len(log[g]) :
           log[g][k].event_date = iter[g].event_date

\* a caller stopped after pulling one of two elements
StoppedEarly ==
  \E g \in Gens :
    /\ iter[g].state = "closed"
    /\ iter[g].yielded = 1
    /\ iter[g].num_events = 2

\* the session identifiers an instance returned before its k-th call
EarlierSessions(g, k) == { log[g][j].event.session_id : j \in 1..(k - 1) }

\* the last call before the k-th one that drew the same user (0 if none)
PrevSameUser(g, k) ==
  LET S == { j \in 1..(k - 1) :
               log[g][j].event.user_id = log[g][k].event.user_id }
  IN IF S = {} THEN 0 ELSE CHOOSE j \in S : \A i \in S : i <= j

\* C6: a session evaluation for a user without a session, or whose renewal
\* draw is below 0.10, returns an identifier never returned before;
\* otherwise it returns the recorded one.  The returned identifier is the
\* one recorded for the user after the call, and two consecutive events of
\* a user differ in session_id only by a renewal.
SessionLookupOrCreate ==
  \A g \in Gens : \A k \in 1..Len(log[g]) :
    LET ev == log[g][k].eval
        e == log[g][k].event
        j == PrevSameUser(g, k)
    IN /\ ev.user_id = e.user_id
       /\ e.session_id = ev.ret
       /\ ev.known <=> (j # 0)
       /\ j # 0 => ev.prev = log[g][j].event.session_id
       /\ ((~ev.known) \/ ev.below) =>
            (ev.ret # ev.prev /\ ev.ret \notin EarlierSessions(g, k))
       /\ (ev.known /\ ~ev.below) => ev.ret = ev.prev
       /\ k = Len(log[g]) =>
            (e.user_id \in DOMAIN sessions[g] /\ sessions[g][e.user_id] = ev.ret)

\* a user was drawn twice, by the first and by the last call of an instance
\* that made at least two; the second draw renewed the session
SessionRenewed ==
  \E g \in Gens :
    /\ Len(log[g]) >= 2
    /\ log[g][Len(log[g])].eval.known
    /\ log[g][Len(log[g])].eval.below

\* the property keys and value ranges that go with an event type
PropertiesFit(t, p) ==
  CASE t = "document_edited" ->
         /\ DOMAIN p = {"document_id", "edit_duration_sec", "characters_added"}
         /\ p.edit_duration_sec \in 10..3600
         /\ p.characters_added \in 0..5000
    [] t \in {"document_created", "document_deleted", "document_shared"} ->
         DOMAIN p = {"document_id"}
    [] t = "feature_used" ->
         /\ DOMAIN p = {"feature_id", "feature_name", "duration_sec"}
         /\ \E i \in 1..Len(FEATURES) :
              p.feature_id = FEATURES[i].id /\ p.feature_name = FEATURES[i].name
         /\ p.duration_sec \in 5..300
    [] t \in {"subscription_started", "subscription_upgraded"} ->
         /\ DOMAIN p = {"plan", "billing_cycle"}
         /\ p.plan \in {"pro", "enterprise"}
         /\ p.billing_cycle \in {"monthly", "annual"}
    [] t = "subscription_cancelled" ->
         /\ DOMAIN p = {"reason"}
         /\ p.reason \in {"too_expensive", "not_using", "competitor", "other"}
    [] t \in {"user_login", "user_logout"} -> DOMAIN p = {}
    [] OTHER -> FALSE

\* C8: every event has one of the ten event types, and its properties have
\* exactly the keys, with values in the ranges, that go with its type.
PropertiesByEventType ==
  \A g \in Gens : \A k \in 1..Len(log[g]) :
    /\ log[g][k].event.event_type \in Range(EVENT_TYPES)
    /\ PropertiesFit(log[g][k].event.event_type, log[g][k].event.properties)

\* an instance produced a document_shared event and then a feature_used one
SharedThenFeatureUsed ==
  \E g \in Gens :
    /\ Len(log[g]) = 2
    /\ log[g][1].event.event_type = "document_shared"
    /\ log[g][2].event.event_type = "feature_used"

\* C9: the timestamp of every event has the calendar date of the day the
\* caller passed, with an hour in 0..23, a minute and a second in 0..59.
TimestampOnRequestedDay ==
  \A g \in Gens : \A k \in 1..Len(log[g]) :
    LET ts == log[g][k].event.event_timestamp
    IN /\ TimestampDate(ts) = log[g][k].event_date.day
       /\ ts[2] \in 0..23
       /\ ts[3] \in 0..59
       /\ ts[4] \in 0..59
       /\ ts[5] = "Z"

\* an event was produced for a datetime late in its day, with a drawn time
\* of day late in the day too
LateEventProduced ==
  \E g \in Gens : \E k \in 1..Len(log[g]) :
    /\ log[g][k].event_date.hour = 23
    /\ log[g][k].event.event_timestamp[2] >= 12

\* C7: a step in which an instance that is built does nothing (it is not
\* constructed and produces no event) leaves the random stream that this
\* instance draws from unchanged.
InstancesShareNoState ==
  [][\A g \in Gens :
       (built[g] /\ built'[g] = built[g] /\ log'[g] = log[g]
        /\ sessions'[g] = sessions[g]) => rng' = rng]_vars

\* C10: a storage failure ends the call (no further attempt is made by the
\* call), the store is then what it was when the call started, and a
\* repeat of the same call that returns leaves exactly one row for every
\* event of the batch.
FailedLoadLeavesNothing ==
  /\ fault => pc = "raised"
  /\ pc = "raised" => table = before
  /\ (pc = "returned" /\ retry) =>
       \A k \in 1..Len(args.events) :
         Cardinality({ r \in table :
                         r.event_id = args.events[k].event_id }) = 1

\* the repeat of a failed call with a batch of more than one page returned,
\* none of its events having been in the store
RetryInsertedAll ==
  /\ pc = "returned"
  /\ retry
  /\ Len(args.events) > PageSize
  /\ \A k \in 1..Len(args.events) :
       args.events[k].event_id \notin Keys(before)

\* C13: when a call has returned or raised, no connection to the store is
\* open.
ConnectionReleased ==
  pc \in {"returned", "raised"} => conns = 0

\* the number of draws the type-specific properties of an event take
PropertyDraws(t) ==
  CASE t = "document_edited" -> 3
    [] t \in {"document_created", "document_deleted", "document_shared"} -> 1
    [] t \in {"feature_used", "subscription_started", "subscription_upgraded"} -> 2
    [] t = "subscription_cancelled" -> 1
    [] OTHER -> 0

\* C14: a step that produces an event of an instance evaluates the session
\* tracker once, for the user of the event: the stream advances by the
\* draws of the event with at most the one renewal draw, at most one
\* session identifier is generated, the event carries the identifier then
\* recorded for its user, and the entries of the other users are as before;
\* a step that produces no event of the instance leaves its map as it is,
\* and no entry ever goes away.
SessionEvaluatedOncePerEvent ==
  [][\A g \in Gens :
       /\ \A u \in DOMAIN sessions[g] : u \in DOMAIN sessions'[g]
       /\ log'[g] = log[g] => sessions'[g] = sessions[g]
       /\ log'[g] # log[g] =>
            LET e == log'[g][Len(log'[g])].event
                u == e.user_id
                known == u \in DOMAIN sessions[g]
                fresh == (~known) \/ sessions'[g][u] # sessions[g][u]
            IN /\ Len(log'[g]) = Len(log[g]) + 1
               /\ DOMAIN sessions'[g] = DOMAIN sessions[g] \cup {u}
               /\ e.session_id = sessions'[g][u]
               /\ \A x \in DOMAIN sessions[g] \ {u} :
                    sessions'[g][x] = sessions[g][x]
               /\ rng' = Nth(rng, 8 + (IF known THEN 1 ELSE 0)
                                    + PropertyDraws(e.event_type))
               /\ uuidCtr' = uuidCtr + 1 + (IF fresh THEN 1 ELSE 0)]_vars

\* an instance produced events for two users, and the session of the first
\* is still recorded when the second has been produced
TwoUsersInSession ==
  \E g \in Gens :
    /\ Len(log[g]) = 2
    /\ log[g][1].event.user_id # log[g][2].event.user_id
    /\ log[g][1].event.user_id \in DOMAIN sessions[g]
    /\ sessions[g][log[g][1].event.user_id] = log[g][1].event.session_id

\* C11: a run whose date range ends before it starts reports an error: it
\* does not complete normally, and it generates no event and loads nothing.
InvalidRangeIsFatal ==
  (mpc # "init" /\ margs.end_date < margs.start_date) =>
    /\ mpc # "done"
    /\ log[Driven] = << >>
    /\ pc = "idle"

====
